---- MODULE Spec2Model ----
(***************************************************************************)
(* Model of strbuf::StrBuf<N> (src/src/lib.rs): a fixed-capacity byte      *)
(* array plus a cursor, written through core::fmt::Write::write_str and    *)
(* read back through Deref / AsRef<str>.                                   *)
(*                                                                         *)
(* A &str is modelled by its UTF-8 byte sequence (a TLA+ sequence of       *)
(* numbers 0..255); s.len() is Len(s) and s.as_bytes() is s itself.        *)
(* A Result is a record with a field "tag" ("Ok" / "Err"); a call that     *)
(* panics is the third outcome "Panic".                                    *)
(***************************************************************************)
EXTENDS Integers, Sequences, FiniteSets, TLC

\* ---------------------------------------------------------------- bounds
MaxN == 4
MaxChars == 2
MaxPieces == 2

\* ------------------------------------------------- inputs: text fragments
\* The characters fragments are built from: "a" (1 byte), "é" (2 bytes),
\* "€" (3 bytes), as UTF-8.
Chars == { <<97>>, <<195, 169>>, <<226, 130, 172>> }

RECURSIVE StrsUpTo(_)
StrsUpTo(k) ==
    IF k = 0 THEN { <<>> }
    ELSE LET shorter == StrsUpTo(k - 1)
         IN  shorter \cup { t \o c : t \in shorter, c \in Chars }

\* the &str arguments handed to write_str
Frags == StrsUpTo(MaxChars)

\* What a renderer (a Display impl, a format_args! program) does: it emits
\* fragments in order through write_str, propagating the first error, and
\* may itself give up with fmt::Error.  One item is one such step.
Emit(s) == [fail |-> FALSE, s |-> s]
GiveUp == [fail |-> TRUE, s |-> <<>>]
Items == { Emit(s) : s \in { <<>> } \cup Chars } \cup { GiveUp }

RECURSIVE SeqsUpTo(_, _)
SeqsUpTo(S, k) ==
    IF k = 0 THEN { <<>> }
    ELSE LET shorter == SeqsUpTo(S, k - 1)
         IN  shorter \cup { Append(t, x) : t \in shorter, x \in S }

Renderings == SeqsUpTo(Items, MaxPieces)

\* ------------------------------------------------------- Result values
Ok(v) == [tag |-> "Ok", val |-> v]
OkUnit == [tag |-> "Ok"]
Err == [tag |-> "Err"]
Panic == [tag |-> "Panic"]

\* --------------------------------------------------- slice primitives
\* slice.split_at_mut(mid): panics when mid > len
split_at_mut(slice, mid) ==
    IF mid > Len(slice)
    THEN [panic |-> TRUE, left |-> <<>>, right |-> <<>>]
    ELSE [panic |-> FALSE,
          left  |-> SubSeq(slice, 1, mid),
          right |-> SubSeq(slice, mid + 1, Len(slice))]

\* dst.copy_from_slice(src): panics when the lengths differ
copy_from_slice(dst, src) ==
    IF Len(dst) # Len(src)
    THEN [panic |-> TRUE, dst |-> dst]
    ELSE [panic |-> FALSE, dst |-> src]

\* core::str::from_utf8 as a validity test on a byte sequence
IsCont(x) == x >= 128 /\ x <= 191

RECURSIVE from_utf8_ok(_)
from_utf8_ok(b) ==
    IF b = <<>> THEN TRUE
    ELSE LET x == b[1]
             n == Len(b)
         IN  IF x < 128 THEN from_utf8_ok(Tail(b))
             ELSE IF x >= 194 /\ x <= 223
             THEN /\ n >= 2
                  /\ IsCont(b[2])
                  /\ from_utf8_ok(SubSeq(b, 3, n))
             ELSE IF x >= 224 /\ x <= 239
             THEN /\ n >= 3
                  /\ IsCont(b[2])
                  /\ (x = 224 => b[2] >= 160)
                  /\ (x = 237 => b[2] <= 159)
                  /\ IsCont(b[3])
                  /\ from_utf8_ok(SubSeq(b, 4, n))
             ELSE IF x >= 240 /\ x <= 244
             THEN /\ n >= 4
                  /\ IsCont(b[2])
                  /\ (x = 240 => b[2] >= 144)
                  /\ (x = 244 => b[2] <= 143)
                  /\ IsCont(b[3])
                  /\ IsCont(b[4])
                  /\ from_utf8_ok(SubSeq(b, 5, n))
             ELSE FALSE

\* ------------------------------------------------------------- StrBuf
\* struct StrBuf<const N: usize>([u8; N], usize)
StrBuf(st, len) == [storage |-> st, length |-> len]

\* variant: the cursor starts at the end of the array, Self([0; N], N)
default_full(n) == StrBuf([i \in 1..n |-> 0], n)

\* Default::default(): Self([0; N], 0)
default(n) == StrBuf([i \in 1..n |-> 0], 0)

\* ------------------------------------------------------- Deref / AsRef
\* variant: the view covers the whole array instead of the written part
deref_whole(b) ==
    IF from_utf8_ok(b.storage) THEN Ok(b.storage) ELSE Panic

\* fn deref(&self) -> &str:
\*     core::str::from_utf8(&self.0[..self.1]).unwrap()
\* The slice panics when self.1 > N, the unwrap when the bytes are not UTF-8.
deref(b) ==
    IF b.length > Len(b.storage) THEN Panic
    ELSE LET bytes == SubSeq(b.storage, 1, b.length)
         IN  IF from_utf8_ok(bytes) THEN Ok(bytes) ELSE Panic

\* fn as_ref(&self) -> &str: self.deref()
as_ref(b) == deref(b)

\* ------------------------------------------------------------ write_str
\* The variants below each change write_str the way one slip would.

\* variant: the cursor is advanced before the capacity check
write_str_advance_first(b, s) ==
    LET sp == split_at_mut(b.storage, b.length)
    IN  IF sp.panic THEN [buf |-> b, ret |-> Panic]
        ELSE IF Len(s) > Len(sp.right)
        THEN [buf |-> StrBuf(b.storage, b.length + Len(s)), ret |-> Err]
        ELSE [buf |-> StrBuf(sp.left \o s \o SubSeq(sp.right, Len(s) + 1, Len(sp.right)),
                             b.length + Len(s)),
              ret |-> OkUnit]

\* variant: write-then-check, the part that fits is copied before the
\* error is returned
write_str_write_then_check(b, s) ==
    LET sp == split_at_mut(b.storage, b.length)
    IN  IF sp.panic THEN [buf |-> b, ret |-> Panic]
        ELSE LET free == sp.right
                 k    == IF Len(s) > Len(free) THEN Len(free) ELSE Len(s)
                 st   == sp.left \o SubSeq(s, 1, k) \o SubSeq(free, k + 1, Len(free))
             IN  IF Len(s) > Len(free)
                 THEN [buf |-> StrBuf(st, b.length), ret |-> Err]
                 ELSE [buf |-> StrBuf(st, b.length + Len(s)), ret |-> OkUnit]

\* variant: the capacity test is >= instead of >
write_str_off_by_one(b, s) ==
    LET sp == split_at_mut(b.storage, b.length)
    IN  IF sp.panic THEN [buf |-> b, ret |-> Panic]
        ELSE IF Len(s) >= Len(sp.right)
        THEN [buf |-> b, ret |-> Err]
        ELSE [buf |-> StrBuf(sp.left \o s \o SubSeq(sp.right, Len(s) + 1, Len(sp.right)),
                             b.length + Len(s)),
              ret |-> OkUnit]

\* variant: the destination is taken from the start of the array instead
\* of from the free part
write_str_at_start(b, s) ==
    LET sp == split_at_mut(b.storage, b.length)
    IN  IF sp.panic THEN [buf |-> b, ret |-> Panic]
        ELSE IF Len(s) > Len(sp.right)
        THEN [buf |-> b, ret |-> Err]
        ELSE [buf |-> StrBuf(s \o SubSeq(b.storage, Len(s) + 1, Len(b.storage)),
                             b.length + Len(s)),
              ret |-> OkUnit]

\* variant: an oversized fragment is truncated to the free space and the
\* call reports success
write_str_truncate(b, s) ==
    LET sp == split_at_mut(b.storage, b.length)
    IN  IF sp.panic THEN [buf |-> b, ret |-> Panic]
        ELSE LET free == sp.right
                 k    == IF Len(s) > Len(free) THEN Len(free) ELSE Len(s)
             IN  [buf |-> StrBuf(sp.left \o SubSeq(s, 1, k) \o SubSeq(free, k + 1, Len(free)),
                                 b.length + k),
                  ret |-> OkUnit]

\* variant: the part that fits is written and kept (the cursor advances
\* over it) before the error is returned
write_str_partial(b, s) ==
    LET sp == split_at_mut(b.storage, b.length)
    IN  IF sp.panic THEN [buf |-> b, ret |-> Panic]
        ELSE LET free == sp.right
                 k    == IF Len(s) > Len(free) THEN Len(free) ELSE Len(s)
             IN  [buf |-> StrBuf(sp.left \o SubSeq(s, 1, k) \o SubSeq(free, k + 1, Len(free)),
                                 b.length + k),
                  ret |-> IF Len(s) > Len(free) THEN Err ELSE OkUnit]

\* variant: the cursor is assigned (self.1 = s.len()) instead of advanced
write_str_assign(b, s) ==
    LET sp == split_at_mut(b.storage, b.length)
    IN  IF sp.panic THEN [buf |-> b, ret |-> Panic]
        ELSE IF Len(s) > Len(sp.right)
        THEN [buf |-> b, ret |-> Err]
        ELSE [buf |-> StrBuf(sp.left \o s \o SubSeq(sp.right, Len(s) + 1, Len(sp.right)),
                             Len(s)),
              ret |-> OkUnit]

\* fn write_str(&mut self, s: &str) -> core::fmt::Result
\*   let (.., free) = self.0.split_at_mut(self.1);
\*   if s.len() > free.len() { return Err(core::fmt::Error); }
\*   let (into, ..) = free.split_at_mut(s.len());
\*   into.copy_from_slice(s.as_bytes());
\*   self.1 += s.len();
\*   Ok(())
\* The result is the buffer after the call and the value returned.
write_str(b, s) ==
    LET sp == split_at_mut(b.storage, b.length)
    IN  IF sp.panic THEN [buf |-> b, ret |-> Panic]
        ELSE LET free == sp.right
             IN  IF Len(s) > Len(free)
                 THEN [buf |-> b, ret |-> Err]
                 ELSE LET sp2 == split_at_mut(free, Len(s))
                          cp  == copy_from_slice(sp2.left, s)
                      IN  IF sp2.panic \/ cp.panic
                          THEN [buf |-> b, ret |-> Panic]
                          ELSE [buf |-> StrBuf(sp.left \o cp.dst \o sp2.right,
                                               b.length + Len(s)),
                                ret |-> OkUnit]

\* ------------------------------------------------------------ write_fmt
\* Write::write_fmt(&mut self, args), the provided method that write!()
\* calls: the rendering's fragments are passed to write_str in emission
\* order and the first error (of write_str, or of the renderer) ends the
\* call.  oks records the fragments whose write_str returned Ok.
RECURSIVE write_fmt(_, _)
write_fmt(b, r) ==
    IF r = <<>> THEN [buf |-> b, ret |-> OkUnit, oks |-> <<>>]
    ELSE IF Head(r).fail THEN [buf |-> b, ret |-> Err, oks |-> <<>>]
    ELSE LET w == write_str(b, Head(r).s)
         IN  IF w.ret.tag # "Ok"
             THEN [buf |-> w.buf, ret |-> w.ret, oks |-> <<>>]
             ELSE LET rest == write_fmt(w.buf, Tail(r))
                  IN  [buf |-> rest.buf, ret |-> rest.ret,
                       oks |-> Head(r).s \o rest.oks]

\* ---------------------------------------------------- display / format
\* variant: the result of write! is dropped instead of propagated with ?
display_ignore_error(n, r) ==
    LET w == write_fmt(default(n), r)
    IN  IF w.ret.tag = "Panic" THEN Panic ELSE Ok(w.buf)

\* pub fn display<T: Display>(value: T) -> Result<StrBuf<N>, fmt::Error>
\*   let mut buf = StrBuf::default();
\*   write!(buf, "{}", value)?;
\*   Ok(buf)
\* r is what value's Display impl emits.
display(n, r) ==
    LET w == write_fmt(default(n), r)
    IN  IF w.ret.tag = "Ok" THEN Ok(w.buf) ELSE w.ret

\* pub fn format(args: fmt::Arguments<'_>) -> Result<StrBuf<N>, fmt::Error>
\*   let mut buf = StrBuf::default();
\*   buf.write_fmt(args)?;
\*   Ok(buf)
format(n, r) ==
    LET w == write_fmt(default(n), r)
    IN  IF w.ret.tag = "Ok" THEN Ok(w.buf) ELSE w.ret

\* ------------------------------------------------------------ the state
VARIABLES
    N,         \* the const generic capacity of the instance
    storage,   \* self.0 : [u8; N]
    length,    \* self.1 : usize
    accepted,  \* history: bytes of the fragments whose write_str on this
               \* instance returned Ok, in call order
    hadErr,    \* history: some write_str on this instance returned Err
    last       \* the last call: its name, argument and returned value

vars == <<N, storage, length, accepted, hadErr, last>>

self == StrBuf(storage, length)

Call(op, arg, ret) == [op |-> op, arg |-> arg, ret |-> ret]

\* let mut buf = StrBuf::<N>::default();
Init ==
    /\ N \in 0..MaxN
    /\ storage = default(N).storage
    /\ length = default(N).length
    /\ accepted = <<>>
    /\ hadErr = FALSE
    /\ last = Call("default", <<>>, OkUnit)

\* buf = StrBuf::default(): the instance is replaced by a fresh empty one
Default ==
    /\ storage' = default(N).storage
    /\ length' = default(N).length
    /\ accepted' = <<>>
    /\ hadErr' = FALSE
    /\ last' = Call("default", <<>>, OkUnit)
    /\ UNCHANGED N

\* buf.write_str(s)
WriteStr ==
    \E s \in Frags :
        LET w == write_str(self, s)
        IN  /\ storage' = w.buf.storage
            /\ length' = w.buf.length
            /\ accepted' = IF w.ret.tag = "Ok" THEN accepted \o s ELSE accepted
            /\ hadErr' = (hadErr \/ w.ret.tag = "Err")
            /\ last' = Call("write_str", s, w.ret)
            /\ UNCHANGED N

\* write!(buf, ...) / buf.write_fmt(args) on the live instance
WriteFmt ==
    \E r \in Renderings :
        LET w == write_fmt(self, r)
        IN  /\ storage' = w.buf.storage
            /\ length' = w.buf.length
            /\ accepted' = accepted \o w.oks
            /\ hadErr' = (hadErr \/ (w.ret.tag = "Err" /\ \A i \in 1..Len(r) : ~r[i].fail))
            /\ last' = Call("write_fmt", r, w.ret)
            /\ UNCHANGED N

\* &*buf
Deref ==
    /\ last' = Call("deref", <<>>, deref(self))
    /\ UNCHANGED <<N, storage, length, accepted, hadErr>>

\* buf.as_ref()
AsRef ==
    /\ last' = Call("as_ref", <<>>, as_ref(self))
    /\ UNCHANGED <<N, storage, length, accepted, hadErr>>

\* StrBuf::<N>::display(value): builds and returns another instance
Display ==
    \E r \in Renderings :
        /\ last' = Call("display", r, display(N, r))
        /\ UNCHANGED <<N, storage, length, accepted, hadErr>>

\* StrBuf::<N>::format(args): builds and returns another instance
Format ==
    \E r \in Renderings :
        /\ last' = Call("format", r, format(N, r))
        /\ UNCHANGED <<N, storage, length, accepted, hadErr>>

\* the operations on one live instance
Next ==
    \/ Default
    \/ WriteStr
    \/ WriteFmt
    \/ Deref
    \/ AsRef

Spec == Init /\ [][Next]_vars

\* the two constructors, each call building an instance of its own
NextCtor ==
    \/ Display
    \/ Format

SpecCtor == Init /\ [][NextCtor]_vars

\* ------------------------------------------------- helpers of the claims
\* the bytes a rendering's first k items emit
RECURSIVE Emitted(_, _)
Emitted(r, k) == IF k = 0 THEN <<>> ELSE Emitted(r, k - 1) \o r[k].s

\* the standard rendering: everything the renderer emits
Rendered(r) == Emitted(r, Len(r))

\* the renderer itself does not fail
NoFail(r) == \A i \in 1..Len(r) : ~r[i].fail

\* the text view of the live instance
Text == deref(self)

\* ------------------------------------------------------------ the claims

\* C1. Capacity bound: in every reachable state 0 <= length <= N, and
\* length is the sum of the byte lengths of the fragments whose write_str
\* returned Ok (so that sum never exceeds N).
CapacityBound ==
    /\ 0 <= length
    /\ length <= N
    /\ length = Len(accepted)
    /\ Len(accepted) <= N

\* a full buffer that has rejected a fragment
CapacityBoundWitness ==
    /\ N >= 2
    /\ length = N
    /\ hadErr
    /\ last.op = "write_str"
    /\ last.ret.tag = "Err"

\* C2. Append is all-or-nothing: a write_str that returns an error leaves
\* the whole storage array and the length as they were before the call.
AppendAllOrNothing ==
    [][ (last'.op = "write_str" /\ last'.ret.tag = "Err")
            => (storage' = storage /\ length' = length) ]_vars

\* a fragment rejected while part of it would still have fitted
AppendAllOrNothingWitness ==
    /\ last.op = "write_str"
    /\ last.ret.tag = "Err"
    /\ length > 0
    /\ length < N

\* C3. write_str returns an error exactly when length + len(s) > N; it
\* returns Ok or Err, never panics, also for an exact fit and for an empty
\* fragment on a full buffer.
ExactCapacityError ==
    [][ last'.op = "write_str"
            => /\ last'.ret.tag \in {"Ok", "Err"}
               /\ (last'.ret.tag = "Err" <=> length + Len(last'.arg) > N) ]_vars

\* a fragment that exactly filled the rest of a partly filled buffer
ExactCapacityErrorWitness ==
    /\ last.op = "write_str"
    /\ last.ret.tag = "Ok"
    /\ length = N
    /\ Len(last.arg) > 0
    /\ Len(last.arg) < N

\* C4. A write_str with length + len(s) <= N succeeds, copies s into
\* storage[length .. length+len(s)], advances length by len(s) and keeps
\* storage[0..length], so the text view becomes the old view followed by s.
SuccessfulAppendEffect ==
    [][ (last'.op = "write_str" /\ length + Len(last'.arg) <= N)
            => /\ last'.ret.tag = "Ok"
               /\ length' = length + Len(last'.arg)
               /\ length' <= Len(storage')
               /\ SubSeq(storage', length + 1, length + Len(last'.arg)) = last'.arg
               /\ SubSeq(storage', 1, length) = SubSeq(storage, 1, length)
               /\ Text.tag = "Ok"
               /\ Text' = Ok(Text.val \o last'.arg) ]_vars

\* a non-empty fragment appended behind earlier content
SuccessfulAppendEffectWitness ==
    /\ last.op = "write_str"
    /\ last.ret.tag = "Ok"
    /\ Len(last.arg) > 0
    /\ length > Len(last.arg)

\* C5. Validity: in every reachable state storage[0..length] is valid
\* UTF-8, so deref and as_ref return a text view and never panic.
Utf8Validity ==
    /\ length <= Len(storage)
    /\ from_utf8_ok(SubSeq(storage, 1, length))
    /\ deref(self).tag = "Ok"
    /\ as_ref(self).tag = "Ok"
    /\ (last.op \in {"deref", "as_ref"} => last.ret.tag = "Ok")

\* a multi-byte fragment rejected although its first bytes would have fitted
Utf8ValidityWitness ==
    /\ last.op = "write_str"
    /\ last.ret.tag = "Err"
    /\ Len(last.arg) > 1
    /\ last.arg[1] >= 128
    /\ length < N

\* C6. Monotonicity: write_str, write_fmt, deref and as_ref never decrease
\* length; length gets smaller only when the instance is replaced by a
\* fresh default one.
LengthMonotonic ==
    [][ /\ (last'.op \in {"write_str", "write_fmt", "deref", "as_ref"}
                => length' >= length)
        /\ (length' < length => (last'.op = "default" /\ length' = 0)) ]_vars

\* a formatted write that grew a buffer
LengthMonotonicWitness ==
    /\ last.op = "write_fmt"
    /\ last.ret.tag = "Ok"
    /\ Len(Rendered(last.arg)) > 0
    /\ length > Len(Rendered(last.arg))

\* C7. Round trip: display / format of a rendering that does not fail and
\* whose byte length is <= N return Ok with a buffer whose text view is
\* the rendering, however it is split into fragments.
RoundTrip ==
    (/\ last.op \in {"display", "format"}
     /\ NoFail(last.arg)
     /\ Len(Rendered(last.arg)) <= N)
        => /\ last.ret.tag = "Ok"
           /\ deref(last.ret.val) = Ok(Rendered(last.arg))
           /\ as_ref(last.ret.val) = Ok(Rendered(last.arg))

\* a rendering emitted as two non-empty fragments, one of them multi-byte
RoundTripWitness ==
    /\ last.op = "display"
    /\ last.ret.tag = "Ok"
    /\ Len(last.arg) = 2
    /\ Len(last.arg[1].s) > 0
    /\ Len(last.arg[2].s) > 1

\* C8. display / format return Ok or Err; an Err carries no buffer; they
\* return Err whenever the emitted text exceeds N at some point of the
\* rendering, and, when the renderer does not fail, exactly when the
\* total rendered length exceeds N.
FormattedAllOrNothing ==
    last.op \in {"display", "format"}
        => /\ last.ret.tag \in {"Ok", "Err"}
           /\ (last.ret.tag = "Err" => DOMAIN last.ret = {"tag"})
           /\ ((\E k \in 1..Len(last.arg) : Len(Emitted(last.arg, k)) > N)
                   => last.ret.tag = "Err")
           /\ (NoFail(last.arg)
                   => (last.ret.tag = "Err" <=> Len(Rendered(last.arg)) > N))

\* a rendering whose first fragment fitted and whose second did not
FormattedAllOrNothingWitness ==
    /\ last.op = "display"
    /\ last.ret.tag = "Err"
    /\ NoFail(last.arg)
    /\ Len(last.arg) = 2
    /\ Len(last.arg[1].s) > 0
    /\ Len(last.arg[1].s) <= N

\* C9. A write_fmt on a live buffer that fails at its k-th item stops
\* there: the buffer holds its old content followed by exactly the
\* fragments 1..k-1 (it is not rolled back), length <= N and the content
\* is valid text.
PartialFormattedWrite ==
    [][ (last'.op = "write_fmt" /\ last'.ret.tag = "Err")
            => \E k \in 1..Len(last'.arg) :
                   /\ \/ last'.arg[k].fail
                      \/ length + Len(Emitted(last'.arg, k)) > N
                   /\ \A j \in 1..(k - 1) :
                          /\ ~last'.arg[j].fail
                          /\ length + Len(Emitted(last'.arg, j)) <= N
                   /\ length' = length + Len(Emitted(last'.arg, k - 1))
                   /\ length' <= N
                   /\ Text.tag = "Ok"
                   /\ Text' = Ok(Text.val \o Emitted(last'.arg, k - 1)) ]_vars

\* a formatted write into an empty buffer whose first fragment was written
\* and kept although a later fragment was rejected
PartialFormattedWriteWitness ==
    /\ last.op = "write_fmt"
    /\ last.ret.tag = "Err"
    /\ NoFail(last.arg)
    /\ Len(last.arg) >= 2
    /\ Len(last.arg[1].s) > 0
    /\ N >= 2 * Len(last.arg[1].s)
    /\ length = Len(last.arg[1].s)
    /\ accepted = last.arg[1].s

\* C10. The text view is the concatenation, in call order, of exactly the
\* fragments whose write_str returned Ok (empty when there are none); a
\* rejected fragment does not prevent later ones from being accepted.
TextIsAcceptedConcat ==
    /\ Text = Ok(accepted)
    /\ as_ref(self) = Ok(accepted)

\* a fragment accepted after an earlier one was rejected
TextIsAcceptedConcatWitness ==
    /\ hadErr
    /\ last.op = "write_str"
    /\ last.ret.tag = "Ok"
    /\ Len(last.arg) > 0
    /\ length > Len(last.arg)
    /\ length < N
====
